---- MODULE Spec2Model ----
(***************************************************************************)
(* A model of muni_display.py: the MuniDisplay refresh machinery.          *)
(*                                                                         *)
(* The main (UI) thread runs the constructor and then the Tk main loop;    *)
(* update_data starts one background thread per tick, which fetches every  *)
(* configured stop in turn and hands each result to the UI thread with     *)
(* root.after(0, ...).  The UI thread applies the results one callback at  *)
(* a time (update_stop_display, which also calls update_office_arrival).   *)
(*                                                                         *)
(* Wall-clock time is abstracted: a tick may fire at any moment of the     *)
(* main loop, a fetch may take arbitrarily long, and every reading of      *)
(* datetime.now() is an input drawn from Clock.  An arrival timestamp of   *)
(* the feed is represented by its distance from "now" in whole seconds.    *)
(***************************************************************************)
EXTENDS Integers, Sequences, FiniteSets, TLC

\* ------------------------------------------------------------------ bounds

\* Background threads that may be alive at once (thread slots are reused).
MaxThreads == 2
\* Callbacks handed to root.after(0, ...) and not yet run by the main loop.
MaxPending == 1
\* Visits in one feed response.
MaxVisits == 1

\* ----------------------------------------------------------------- helpers

\* Python's None, and a present value.
None == << >>
Some(x) == << x >>

Min(a, b) == IF a <= b THEN a ELSE b
\* max() left out: the second argument as it is.
Unclamped(a, b) == b
Max(a, b) == IF a >= b THEN a ELSE b

\* An empty dict ({}): a function with an empty domain.
EmptyDict == << >>

\* dict.get(key, default)
Get(d, key, default) == IF key \in DOMAIN d THEN d[key] ELSE default

\* ----------------------------------------------------------- configuration

\* self.stops; the first two stops carry no "agency" key.
stops ==
  << [code |-> "17874", name |-> "Union Square", routes |-> {"THIRD"}],
     [code |-> "16524", name |-> "Stockton and Sutter",
      routes |-> {"STOCKTON", "UNION-STOCKTON"}],
     [code |-> "70012", name |-> "Caltrain 4th & King",
      routes |-> {"EXPRESS", "LIMITED", "LOCAL"}, agency |-> "CT"] >>

destination_blacklist == {"4th St & Mission St"}

\* The keys of self.next_arrivals once the constructor has created it.
CacheKeys == {"17874", "16524", "70012"}

\* stop.get("agency", "SF")
AgencyOf(stop) == Get(stop, "agency", "SF")

\* ------------------------------------------------------------- feed parser

\* A timestamp string of the feed: <<"iso", d>> parses to the instant d seconds
\* from now, <<"bad">> is a non-empty string fromisoformat rejects, <<"">> is the
\* empty string.  A missing key reads as None.
Truthy(ts) == ts # None /\ ts # << "" >>

\* round(x / 60) in place of int(x / 60).
RoundMinutes(d) == (d + 30) \div 60

\* int(x / 60): truncation toward zero.
TruncMinutes(d) == IF d >= 0 THEN d \div 60 ELSE -((-d) \div 60)

\* The body of the for loop of parse_arrival_data for one visit: the records it
\* appends (none or one).
ParseVisit(visit) ==
  LET journey == Get(visit, "MonitoredVehicleJourney", EmptyDict)
      line_ref == Get(journey, "LineRef", "")
      route_name == Get(journey, "PublishedLineName", line_ref)
      monitored_call == Get(journey, "MonitoredCall", EmptyDict)
      expected == Get(monitored_call, "ExpectedArrivalTime", None)
      expected_arrival ==
        IF Truthy(expected) THEN expected
        ELSE Get(monitored_call, "AimedArrivalTime", None)
      named == Get(journey, "DestinationName", "")
      destination == IF named = "" THEN Get(journey, "DirectionRef", "") ELSE named
  IN IF ~Truthy(expected_arrival) THEN << >>
     ELSE IF expected_arrival[1] # "iso" THEN << >>
     ELSE << [route |-> route_name,
              minutes |-> Max(0, TruncMinutes(expected_arrival[2])),
              destination |-> destination] >>

\* A loop that ends at the first visit that gives no record (break where the
\* code has continue).
RECURSIVE ParseVisitsUntilBad(_)
ParseVisitsUntilBad(visits) ==
  IF visits = << >> \/ ParseVisit(Head(visits)) = << >> THEN << >>
  ELSE ParseVisit(Head(visits)) \o ParseVisitsUntilBad(Tail(visits))

RECURSIVE ParseVisits(_)
ParseVisits(visits) ==
  IF visits = << >> THEN << >>
  ELSE ParseVisit(Head(visits)) \o ParseVisits(Tail(visits))

\* An insertion that puts a record before the records of equal minutes.
RECURSIVE InsertBeforeTies(_, _)
InsertBeforeTies(sorted, a) ==
  IF sorted = << >> THEN << a >>
  ELSE IF Head(sorted).minutes < a.minutes
       THEN << Head(sorted) >> \o InsertBeforeTies(Tail(sorted), a)
       ELSE << a >> \o sorted

\* sorted(arrivals, key=minutes): a stable sort, here by insertion.
RECURSIVE InsertByMinutes(_, _)
InsertByMinutes(sorted, a) ==
  IF sorted = << >> THEN << a >>
  ELSE IF Head(sorted).minutes <= a.minutes
       THEN << Head(sorted) >> \o InsertByMinutes(Tail(sorted), a)
       ELSE << a >> \o sorted

RECURSIVE SortByMinutes(_)
SortByMinutes(arrivals) ==
  IF arrivals = << >> THEN << >>
  ELSE InsertByMinutes(SortByMinutes(SubSeq(arrivals, 1, Len(arrivals) - 1)),
                       arrivals[Len(arrivals)])

\* parse_arrival_data(data) for a JSON value: is_object says whether the value
\* is a JSON object; for any other value data.get raises AttributeError, which
\* the outer except swallows, leaving arrivals empty.
parse_arrival_data(is_object, data) ==
  IF ~is_object THEN << >>
  ELSE LET service_delivery == Get(data, "ServiceDelivery", EmptyDict)
           stop_monitoring == Get(service_delivery, "StopMonitoringDelivery", EmptyDict)
           monitored_visits == Get(stop_monitoring, "MonitoredStopVisit", << >>)
       IN SortByMinutes(ParseVisits(monitored_visits))

\* fetch_stop_data for one response of the transport.  response.outcome is
\*   "transport": requests.get or raise_for_status raised a RequestException
\*                (connection failure, timeout, non-2xx status);
\*   "badutf8"  : the body is not valid UTF-8, so content.decode raises
\*                UnicodeDecodeError, for which there is no except clause;
\*   "badjson"  : json.loads raised JSONDecodeError;
\*   "json"     : the body decoded to a JSON value.
\* The result says whether an exception leaves the function, and what it
\* returns otherwise.
fetch_stop_data(response) ==
  CASE response.outcome = "transport" -> [raised |-> FALSE, arrivals |-> << >>]
    [] response.outcome = "badjson" -> [raised |-> FALSE, arrivals |-> << >>]
    [] response.outcome = "badutf8" -> [raised |-> TRUE, arrivals |-> << >>]
    [] response.outcome = "json" ->
         [raised |-> FALSE,
          arrivals |-> parse_arrival_data(response.is_object, response.data)]

\* Whether the fetch or decode of the response failed (the spec's TransportError
\* and DecodeError).
Failed(response) ==
  \/ response.outcome \in {"transport", "badjson", "badutf8"}
  \/ response.outcome = "json" /\ ~response.is_object

\* ------------------------------------------------------- the feed (inputs)

\* One element of MonitoredStopVisit.
Visit(journey) == [MonitoredVehicleJourney |-> journey]

Iso(d) == << "iso", d >>

\* The visits a response for the stop may carry: its first configured route
\* and a route that is not configured, a blocked and an unblocked destination,
\* arrivals before, inside and after the stop's window, and the shapes the
\* parser distinguishes (published name or line reference, expected or aimed
\* time, no time, unparsable time).
MuniVisits(route) ==
  { Visit([LineRef |-> route, PublishedLineName |-> route, DestinationName |-> "Caltrain",
           MonitoredCall |-> [ExpectedArrivalTime |-> Iso(150)]]),
    Visit([LineRef |-> route, PublishedLineName |-> route, DestinationName |-> "Caltrain",
           MonitoredCall |-> [ExpectedArrivalTime |-> Iso(270)]]),
    Visit([LineRef |-> route, DestinationName |-> "Caltrain",
           MonitoredCall |-> [ExpectedArrivalTime |-> << "" >>,
                              AimedArrivalTime |-> Iso(630)]]),
    Visit([LineRef |-> "OWL", PublishedLineName |-> "OWL", DestinationName |-> "Caltrain",
           MonitoredCall |-> [ExpectedArrivalTime |-> Iso(270)]]),
    Visit([LineRef |-> route, PublishedLineName |-> route,
           DestinationName |-> "4th St & Mission St",
           MonitoredCall |-> [ExpectedArrivalTime |-> Iso(630)]]),
    Visit([LineRef |-> route, PublishedLineName |-> route, DestinationName |-> "Caltrain",
           MonitoredCall |-> EmptyDict]),
    Visit([LineRef |-> route, PublishedLineName |-> route, DestinationName |-> "Caltrain",
           MonitoredCall |-> [ExpectedArrivalTime |-> << "bad" >>]]) }

CaltrainVisits ==
  { Visit([LineRef |-> "LOCAL", PublishedLineName |-> "LOCAL", DestinationName |-> "San Jose",
           MonitoredCall |-> [ExpectedArrivalTime |-> Iso(1830)]]),
    Visit([LineRef |-> "LOCAL", PublishedLineName |-> "LOCAL", DestinationName |-> "San Jose",
           MonitoredCall |-> [ExpectedArrivalTime |-> Iso(630)]]),
    Visit([LineRef |-> "LOCAL", PublishedLineName |-> "LOCAL", DestinationName |-> "San Jose",
           MonitoredCall |-> [ExpectedArrivalTime |-> Iso(3690)]]),
    Visit([LineRef |-> "LOCAL", PublishedLineName |-> "LOCAL",
           DestinationName |-> "4th St & Mission St",
           MonitoredCall |-> [ExpectedArrivalTime |-> Iso(2400)]]) }

VisitsFor(stop) ==
  IF stop.code = "70012" THEN CaltrainVisits
  ELSE IF stop.code = "17874" THEN MuniVisits("THIRD")
  ELSE MuniVisits("STOCKTON")

RECURSIVE SeqsUpTo(_, _)
SeqsUpTo(S, n) ==
  IF n = 0 THEN { << >> }
  ELSE LET shorter == SeqsUpTo(S, n - 1)
       IN shorter \cup { Append(q, x) : q \in { r \in shorter : Len(r) = n - 1 }, x \in S }

Body(visits) ==
  [ServiceDelivery |-> [StopMonitoringDelivery |-> [MonitoredStopVisit |-> visits]]]

\* What the transport may answer for the stop.
Responses(stop) ==
  { [outcome |-> "transport"], [outcome |-> "badjson"], [outcome |-> "badutf8"],
    [outcome |-> "json", is_object |-> FALSE, data |-> EmptyDict],
    [outcome |-> "json", is_object |-> TRUE, data |-> EmptyDict] }
  \cup { [outcome |-> "json", is_object |-> TRUE, data |-> Body(visits)] :
         visits \in SeqsUpTo(VisitsFor(stop), MaxVisits) }

\* The readings of datetime.now(), in minutes since midnight: 6:30, 7:10, 23:20.
Clock == {390, 430, 1400}

\* ------------------------------------------------------------------- state

VARIABLES
  ui,                   \* where the main thread is: "ctor" (before the call of
                        \* update_data in __init__), "cache" (before next_arrivals
                        \* is created), "mainloop"
  threads,              \* per thread slot: pc ("idle", "loop", "stamp", "done",
                        \* "dead"), i (index in self.stops of the stop to fetch
                        \* next)
  after_queue,          \* the callbacks scheduled with root.after(0, ...), in order
  next_arrivals,        \* self.next_arrivals: stop code -> None or Some(minutes);
                        \* the empty function until the constructor creates it
  stop_frames,          \* per stop code, what its arrivals frame shows
  office_arrival_label, \* text, colour and emoji of the office label; with them
                        \* the inputs of the computation that set it: the clock
                        \* reading (now) and whether the environment made the
                        \* try block raise (raised)
  last_updated_label,   \* text of the last-updated label
  feed                  \* history of the one fetch followed through a refresh
                        \* (FeedSpec): the response the transport gave, what
                        \* fetch_stop_data returned for it and what was scheduled;
                        \* [pc |-> "off"] where no fetch is followed

vars == << ui, threads, after_queue, next_arrivals, stop_frames,
           office_arrival_label, last_updated_label, feed >>

Slots == 1 .. MaxThreads


\* ------------------------------------------------------ commute estimation

\* strftime("%I:%M %p") of a time of day given in minutes since midnight.
Strftime12(minute_of_day) ==
  LET hour == minute_of_day \div 60
      hour12 == IF hour % 12 = 0 THEN 12 ELSE hour % 12
  IN << hour12, minute_of_day % 60, IF hour < 12 THEN "AM" ELSE "PM" >>

\* update_office_arrival with max() where the code has min().
TotalCommuteSlowestLeg(union_arrival, stockton_arrival, caltrain_arrival) ==
  LET muni_time == Max(union_arrival + 15, stockton_arrival + 10)
      caltrain_time == caltrain_arrival + 49
      walk_time == 7
  IN 13 + muni_time + caltrain_time + walk_time

\* The minutes update_office_arrival adds to now: lines 425 to 430.
TotalCommute(union_arrival, stockton_arrival, caltrain_arrival) ==
  LET muni_time == Min(union_arrival + 15, stockton_arrival + 10)
      caltrain_time == caltrain_arrival + 49
      walk_time == 7
  IN 13 + muni_time + caltrain_time + walk_time

\* The early return taken only when the Caltrain value is None.
MissingCaltrainOnly(union_arrival, stockton_arrival, caltrain_arrival) ==
  None = caltrain_arrival

\* Whether update_office_arrival takes its early return: one of the three
\* values is None (line 420).
MissingArrival(union_arrival, stockton_arrival, caltrain_arrival) ==
  None \in {union_arrival, stockton_arrival, caltrain_arrival}

\* The colour and emoji for an arrival at the given time of day (lines 441 to
\* 452).
Severity(arrival_hour, arrival_minute) ==
  IF arrival_hour < 8 \/ (arrival_hour = 8 /\ arrival_minute < 30)
  THEN [fg |-> "#2196F3", emoji |-> "office"]
  ELSE IF arrival_hour = 8 /\ arrival_minute < 56
  THEN [fg |-> "#FF9800", emoji |-> "office"]
  ELSE [fg |-> "#F44336", emoji |-> "alarm"]

\* An except clause that shows the same label as the early return.
OfficeCalculatingOnException(now, raised) ==
  [text |-> << "Calculating..." >>, fg |-> "#2196F3", emoji |-> "office",
   now |-> now, raised |-> raised]

\* What the except clause of update_office_arrival leaves on the label (lines
\* 458 to 460).
OfficeOnException(now, raised) ==
  [text |-> << "Error" >>, fg |-> "#F44336", emoji |-> "office",
   now |-> now, raised |-> raised]

\* update_office_arrival: the label it leaves, given the cache, the reading of
\* datetime.now() and whether the try block is made to raise from outside (the
\* code itself gives no statement of the block a reason to raise; raises stands
\* for a failure of the runtime or of Tk).  Arithmetic on None raises TypeError
\* inside the block, which ends in the same except clause.
update_office_arrival(cache, now, raises) ==
  LET union_arrival == cache["17874"]
      stockton_arrival == cache["16524"]
      caltrain_arrival == cache["70012"]
  IN IF raises THEN OfficeOnException(now, TRUE)
     ELSE IF MissingArrival(union_arrival, stockton_arrival, caltrain_arrival)
     THEN [text |-> << "Calculating..." >>, fg |-> "#2196F3", emoji |-> "office",
           now |-> now, raised |-> FALSE]
     ELSE IF None \in {union_arrival, stockton_arrival, caltrain_arrival}
     THEN OfficeOnException(now, FALSE)
     ELSE LET total_commute == TotalCommute(union_arrival[1], stockton_arrival[1],
                                            caltrain_arrival[1])
              arrival_time == (now + total_commute) % 1440
              sev == Severity(arrival_time \div 60, arrival_time % 60)
          IN [text |-> Strftime12(arrival_time), fg |-> sev.fg, emoji |-> sev.emoji,
              now |-> now, raised |-> FALSE]

\* ----------------------------------------------------------------- filters

\* The filter of fetch_and_update (lines 505, 506): for agency SF only.
RouteFilter(stop, arrivals) ==
  IF AgencyOf(stop) = "SF"
  THEN LET Keep(arrival) == /\ arrival.route \in stop.routes
                            /\ arrival.destination \notin destination_blacklist
       IN SelectSeq(arrivals, Keep)
  ELSE arrivals

\* A window filter with exclusive ends.
WindowFilterExclusive(stop_code, arrivals) ==
  IF stop_code = "70012"
  THEN LET Keep(arrival) == 25 < arrival.minutes /\ arrival.minutes < 60
       IN SelectSeq(arrivals, Keep)
  ELSE LET Keep(arrival) == arrival.minutes > 4
       IN SelectSeq(arrivals, Keep)

\* A Muni filter that takes the first arrival to be the one too close to catch
\* and drops it, whatever its minutes.
WindowFilterSkipsFirst(stop_code, arrivals) ==
  IF stop_code = "70012"
  THEN LET Keep(arrival) == 25 <= arrival.minutes /\ arrival.minutes <= 60
       IN SelectSeq(arrivals, Keep)
  ELSE IF arrivals = << >> THEN << >> ELSE Tail(arrivals)

\* The filter of update_stop_display (lines 309 to 312).
WindowFilter(stop_code, arrivals) ==
  IF stop_code = "70012"
  THEN LET Keep(arrival) == 25 <= arrival.minutes /\ arrival.minutes <= 60
       IN SelectSeq(arrivals, Keep)
  ELSE LET Keep(arrival) == arrival.minutes >= 4
       IN SelectSeq(arrivals, Keep)

\* filtered_arrivals[:6]
Shown(filtered_arrivals) == SubSeq(filtered_arrivals, 1, Min(6, Len(filtered_arrivals)))

\* ------------------------------------------------------- UI thread handlers

\* The estimate computed before the store of line 316.
EstimateInputBeforeStore(cache_before, cache_after) == cache_before

\* The cache update_office_arrival reads when update_stop_display calls it
\* (line 319): the one after the store of line 316.
EstimateInput(cache_before, cache_after) == cache_after

\* The value stored taken from the arrivals as they came, not as filtered.
StoredArrivalUnfiltered(arrivals, filtered_arrivals) ==
  IF arrivals # << >> THEN Some(arrivals[1].minutes) ELSE None

\* The value stored for the stop at line 316.
StoredArrival(arrivals, filtered_arrivals) ==
  IF filtered_arrivals # << >> THEN Some(filtered_arrivals[1].minutes) ELSE None

\* update_stop_display(stop_code, arrivals); now and raises are the inputs of
\* update_office_arrival.  Where self.next_arrivals does not exist yet, line 315
\* raises AttributeError once the frame has been cleared (lines 305, 306), and
\* the callback ends there.
update_stop_display(stop_code, arrivals, now, raises) ==
  LET filtered_arrivals == WindowFilter(stop_code, arrivals)
      cache ==
        IF stop_code \in DOMAIN next_arrivals
        THEN [next_arrivals EXCEPT ![stop_code] =
                StoredArrival(arrivals, filtered_arrivals)]
        ELSE next_arrivals
  IN IF DOMAIN next_arrivals = {}
     THEN /\ stop_frames' = [stop_frames EXCEPT ![stop_code] =
               [no_data |-> FALSE, rows |-> << >>]]
          /\ UNCHANGED << next_arrivals, office_arrival_label >>
     ELSE /\ next_arrivals' = cache
          /\ office_arrival_label' =
               update_office_arrival(EstimateInput(next_arrivals, cache), now, raises)
          /\ stop_frames' = [stop_frames EXCEPT ![stop_code] =
               IF filtered_arrivals = << >>
               THEN [no_data |-> TRUE, rows |-> << >>]
               ELSE [no_data |-> FALSE, rows |-> Shown(filtered_arrivals)]]

\* ------------------------------------------------------------------ actions

Init ==
  /\ ui = "ctor"
  /\ threads = [t \in Slots |-> [pc |-> "idle", i |-> 1]]
  /\ after_queue = << >>
  /\ next_arrivals = << >>
  /\ stop_frames = [c \in CacheKeys |-> [no_data |-> FALSE, rows |-> << >>]]
  /\ office_arrival_label =
       [text |-> << "--:-- --" >>, fg |-> "#2196F3", emoji |-> "office",
        now |-> 0, raised |-> FALSE]
  /\ last_updated_label = << "Updating..." >>
  /\ feed = [pc |-> "off"]

Ended(t) == threads[t].pc \in {"idle", "done", "dead"}
Alive(t) == ~Ended(t)

\* update_data: start a background thread (in slot t) and schedule the next
\* call.  Nothing in it looks at the threads already running.
update_data(t) ==
  threads' = [threads EXCEPT ![t] = [pc |-> "loop", i |-> 1]]

\* __init__, line 62: the first call of update_data.
CtorUpdateData ==
  /\ ui = "ctor"
  /\ update_data(1)
  /\ ui' = "cache"
  /\ UNCHANGED << after_queue, next_arrivals, stop_frames, office_arrival_label,
                  last_updated_label, feed >>

\* A constructor that returns without the assignment of lines 65 to 69 (the
\* cache created elsewhere, later): main() enters the main loop without it.
CtorWithoutCache ==
  /\ ui = "cache"
  /\ ui' = "mainloop"
  /\ UNCHANGED << threads, after_queue, next_arrivals, stop_frames,
                  office_arrival_label, last_updated_label, feed >>

\* __init__, lines 65 to 69, after which main() enters the main loop.
CtorCreateCache ==
  /\ ui = "cache"
  /\ next_arrivals' = [c \in CacheKeys |-> None]
  /\ ui' = "mainloop"
  /\ UNCHANGED << threads, after_queue, stop_frames, office_arrival_label,
                  last_updated_label, feed >>

\* The timer set at line 518 fires: update_data runs again on the main loop.
Tick ==
  /\ ui = "mainloop"
  /\ \E t \in Slots :
       /\ Ended(t)
       /\ \A s \in Slots : Ended(s) => t <= s
       /\ update_data(t)
  /\ UNCHANGED << ui, after_queue, next_arrivals, stop_frames, office_arrival_label,
                  last_updated_label, feed >>

\* A direct call of update_stop_display by the calling thread, in place of
\* root.after.
CallDirectly(stop_code, arrivals, failed) ==
  /\ \E now \in Clock, raises \in BOOLEAN :
       update_stop_display(stop_code, arrivals, now, raises)
  /\ UNCHANGED after_queue

\* root.after(0, self.update_stop_display, stop_code, arrivals), line 507.
ScheduleDisplay(stop_code, arrivals, failed) ==
  /\ after_queue' = Append(after_queue,
       [callback |-> "update_stop_display", stop_code |-> stop_code,
        arrivals |-> arrivals, failed |-> failed])
  /\ UNCHANGED << next_arrivals, stop_frames, office_arrival_label >>

\* One iteration of the loop of fetch_and_update in thread t.
FetchAndUpdate(t) ==
  /\ threads[t].pc = "loop"
  /\ LET stop == stops[threads[t].i]
     IN \E response \in Responses(stop) :
          LET fetched == fetch_stop_data(response)
          IN IF fetched.raised
             THEN /\ threads' = [threads EXCEPT ![t].pc = "dead"]
                  /\ UNCHANGED << after_queue, next_arrivals, stop_frames,
                                  office_arrival_label >>
             ELSE /\ ui = "mainloop"
                  /\ Len(after_queue) < MaxPending
                  /\ ScheduleDisplay(stop.code, RouteFilter(stop, fetched.arrivals),
                                     Failed(response))
                  /\ threads' = [threads EXCEPT ![t] =
                       IF threads[t].i < Len(stops)
                       THEN [@ EXCEPT !.i = @ + 1]
                       ELSE [@ EXCEPT !.pc = "stamp"]]
  /\ UNCHANGED << ui, last_updated_label, feed >>

\* After the loop: lines 510 to 512.
ScheduleLastUpdated(t) ==
  /\ threads[t].pc = "stamp"
  /\ ui = "mainloop"
  /\ Len(after_queue) < MaxPending
  /\ after_queue' = Append(after_queue,
         [callback |-> "last_updated_label.config", text |-> << "Updated" >>])
  /\ threads' = [threads EXCEPT ![t].pc = "done"]
  /\ UNCHANGED << ui, next_arrivals, stop_frames, office_arrival_label,
                  last_updated_label, feed >>

\* The main loop runs the oldest pending callback.
RunUpdateStopDisplay ==
  /\ ui = "mainloop"
  /\ after_queue # << >>
  /\ Head(after_queue).callback = "update_stop_display"
  /\ \E now \in Clock, raises \in BOOLEAN :
       update_stop_display(Head(after_queue).stop_code, Head(after_queue).arrivals,
                           now, raises)
  /\ after_queue' = Tail(after_queue)
  /\ UNCHANGED << ui, threads, last_updated_label, feed >>

RunLastUpdated ==
  /\ ui = "mainloop"
  /\ after_queue # << >>
  /\ Head(after_queue).callback = "last_updated_label.config"
  /\ last_updated_label' = Head(after_queue).text
  /\ after_queue' = Tail(after_queue)
  /\ UNCHANGED << ui, threads, next_arrivals, stop_frames, office_arrival_label,
                  feed >>

Next ==
  \/ CtorUpdateData
  \/ CtorCreateCache
  \/ Tick
  \/ \E t \in Slots : FetchAndUpdate(t)
  \/ \E t \in Slots : ScheduleLastUpdated(t)
  \/ RunUpdateStopDisplay
  \/ RunLastUpdated

Spec == Init /\ [][Next]_vars

\* The main loop keeps dispatching (the timer of line 518 is re-armed by every
\* call of update_data, whatever the threads do), every thread keeps being
\* scheduled, and every fetch returns (timeout=10).
FairSpec ==
  /\ Spec
  /\ WF_vars(CtorUpdateData)
  /\ WF_vars(CtorCreateCache)
  /\ WF_vars(Tick)
  /\ \A t \in Slots : WF_vars(FetchAndUpdate(t))
  /\ \A t \in Slots : WF_vars(ScheduleLastUpdated(t))
  /\ WF_vars(RunUpdateStopDisplay)
  /\ WF_vars(RunLastUpdated)

\* ------------------------------------------------- one fetch, followed
\*
\* FeedSpec follows the fetch of one stop from the response of the transport to
\* the display, with feeds longer than those of Spec.  It starts in the first
\* cycle, with thread 1 about to fetch stop number j, the stops before it
\* already applied with nothing to show, and keeps in feed what the transport
\* answered.

\* Visits in one feed response of FeedSpec.
MaxFeed == 3

TimedVisit(route, destination, d) ==
  Visit([LineRef |-> route, PublishedLineName |-> route, DestinationName |-> destination,
         MonitoredCall |-> [ExpectedArrivalTime |-> Iso(d)]])

\* The visits of VisitsFor and, with them, arrivals in the past and arrivals at
\* the very ends of the Caltrain window (24, 25 and 60 minutes).
FeedVisits(stop) ==
  VisitsFor(stop) \cup
    ( IF stop.code = "70012"
      THEN { TimedVisit("LOCAL", "San Jose", 1499), TimedVisit("LOCAL", "San Jose", 1500),
             TimedVisit("LOCAL", "San Jose", 3600), TimedVisit("LOCAL", "San Jose", -90) }
      ELSE LET route == CHOOSE r \in stop.routes : r \in {"THIRD", "STOCKTON"}
           IN { TimedVisit(route, "Caltrain", -90), TimedVisit(route, "Caltrain", -30) } )

\* A feed of seven arrivals that all pass the stop's filters, the earliest one
\* last: one more than update_stop_display shows.
LongFeed(stop) ==
  IF stop.code = "70012"
  THEN [k \in 1 .. 7 |-> IF k < 7 THEN TimedVisit("LOCAL", "San Jose", 2400)
                         ELSE TimedVisit("LOCAL", "San Jose", 1830)]
  ELSE LET route == CHOOSE r \in stop.routes : r \in {"THIRD", "STOCKTON"}
       IN [k \in 1 .. 7 |-> IF k < 7 THEN TimedVisit(route, "Caltrain", 630)
                            ELSE TimedVisit(route, "Caltrain", 270)]

\* What the transport may answer for the stop, in FeedSpec.
FeedResponses(stop) ==
  { [outcome |-> "transport"], [outcome |-> "badjson"], [outcome |-> "badutf8"],
    [outcome |-> "json", is_object |-> FALSE, data |-> EmptyDict],
    [outcome |-> "json", is_object |-> TRUE, data |-> EmptyDict] }
  \cup { [outcome |-> "json", is_object |-> TRUE, data |-> Body(visits)] :
         visits \in SeqsUpTo(FeedVisits(stop), MaxFeed) \cup { LongFeed(stop) } }

\* The route and destination filter of fetch_and_update followed by the window
\* filter of update_stop_display: all the filtering an arrival of the stop goes
\* through on its way to the display.
StopFilter(stop, arrivals) == WindowFilter(stop.code, RouteFilter(stop, arrivals))

\* The first cycle, before the fetch of stop number j: the main loop runs,
\* thread 1 is in its loop, every earlier stop of the cycle has been applied
\* with an empty result (a failed fetch or an empty feed: all_failed says
\* which), and the response to come is chosen.
FeedInit ==
  /\ ui = "mainloop"
  /\ after_queue = << >>
  /\ next_arrivals = [c \in CacheKeys |-> None]
  /\ last_updated_label = << "Updating..." >>
  /\ \E j \in DOMAIN stops :
       /\ threads = [t \in Slots |-> IF t = 1 THEN [pc |-> "loop", i |-> j]
                                     ELSE [pc |-> "idle", i |-> 1]]
       /\ stop_frames =
            [c \in CacheKeys |->
               IF \E k \in 1 .. (j - 1) : stops[k].code = c
               THEN [no_data |-> TRUE, rows |-> << >>]
               ELSE [no_data |-> FALSE, rows |-> << >>]]
       /\ office_arrival_label =
            IF j = 1
            THEN [text |-> << "--:-- --" >>, fg |-> "#2196F3", emoji |-> "office",
                  now |-> 0, raised |-> FALSE]
            ELSE update_office_arrival([c \in CacheKeys |-> None], 390, FALSE)
       /\ \E response \in FeedResponses(stops[j]) :
          \E all_failed \in (IF j = 1 THEN {TRUE} ELSE BOOLEAN) :
            feed = [pc |-> "response", stop |-> j, response |-> response,
                    arrivals |-> << >>, all_failed |-> all_failed,
                    once |-> << >>, twice |-> << >>]

\* The iteration of the loop of fetch_and_update for the followed stop: as
\* FetchAndUpdate, for the response chosen, keeping what fetch_stop_data
\* returned.
FeedFetchAndUpdate ==
  /\ feed.pc = "response"
  /\ threads[1].pc = "loop"
  /\ LET stop == stops[feed.stop]
         fetched == fetch_stop_data(feed.response)
     IN IF fetched.raised
        THEN /\ threads' = [threads EXCEPT ![1].pc = "dead"]
             /\ feed' = [feed EXCEPT !.pc = "raised"]
             /\ UNCHANGED << after_queue, next_arrivals, stop_frames,
                             office_arrival_label >>
        ELSE /\ Len(after_queue) < MaxPending
             /\ ScheduleDisplay(stop.code, RouteFilter(stop, fetched.arrivals),
                                Failed(feed.response))
             /\ threads' = [threads EXCEPT ![1] =
                  IF threads[1].i < Len(stops)
                  THEN [@ EXCEPT !.i = @ + 1]
                  ELSE [@ EXCEPT !.pc = "stamp"]]
             /\ feed' = [feed EXCEPT !.pc = "scheduled",
                                     !.arrivals = fetched.arrivals,
                                     !.all_failed = @ /\ Failed(feed.response)]
  /\ UNCHANGED << ui, last_updated_label >>

\* The stop's filters applied to the parser's result, and applied again to what
\* they returned.
FeedFilterTwice ==
  /\ feed.pc = "scheduled"
  /\ after_queue = << >>
  /\ LET once == StopFilter(stops[feed.stop], feed.arrivals)
     IN feed' = [feed EXCEPT !.pc = "filtered", !.once = once,
                             !.twice = StopFilter(stops[feed.stop], once)]
  /\ UNCHANGED << ui, threads, after_queue, next_arrivals, stop_frames,
                  office_arrival_label, last_updated_label >>

FeedNext ==
  \/ FeedFetchAndUpdate
  \/ RunUpdateStopDisplay
  \/ \E t \in Slots : ScheduleLastUpdated(t)
  \/ RunLastUpdated
  \/ FeedFilterTwice

FeedSpec == FeedInit /\ [][FeedNext]_vars

\* ------------------------------------------------------ two cycles at once
\*
\* OverlapSpec starts where the timer has fired once while the thread of the
\* first cycle was still in its first fetch (Init, CtorUpdateData,
\* CtorCreateCache, Tick), and runs both threads to their end with no further
\* tick: thread 1 is the earlier cycle, thread 2 the later one.
OverlapInit ==
  /\ ui = "mainloop"
  /\ threads = [t \in Slots |-> IF t <= 2 THEN [pc |-> "loop", i |-> 1]
                                ELSE [pc |-> "idle", i |-> 1]]
  /\ after_queue = << >>
  /\ next_arrivals = [c \in CacheKeys |-> None]
  /\ stop_frames = [c \in CacheKeys |-> [no_data |-> FALSE, rows |-> << >>]]
  /\ office_arrival_label =
       [text |-> << "--:-- --" >>, fg |-> "#2196F3", emoji |-> "office",
        now |-> 0, raised |-> FALSE]
  /\ last_updated_label = << "Updating..." >>
  /\ feed = [pc |-> "off"]

OverlapNext ==
  \/ \E t \in Slots : FetchAndUpdate(t)
  \/ \E t \in Slots : ScheduleLastUpdated(t)
  \/ RunUpdateStopDisplay
  \/ RunLastUpdated

OverlapSpec == OverlapInit /\ [][OverlapNext]_vars

\* ------------------------------------------------------------------ claims

CacheCreated == DOMAIN next_arrivals = CacheKeys

\* The main loop runs the update_stop_display callback at the head of the queue.
AppliesHead ==
  /\ after_queue # << >>
  /\ Head(after_queue).callback = "update_stop_display"
  /\ after_queue' = Tail(after_queue)

\* The office label shows an arrival time.
Ready == Len(office_arrival_label.text) = 3
Calculating == office_arrival_label.text = << "Calculating..." >>

\* C1: when the result of a failed fetch or decode is applied, the stop's cached
\* next-arrival value and its shown arrivals stay what they were.
C1_FailureKeepsState ==
  [][(AppliesHead /\ Head(after_queue).failed)
     => LET code == Head(after_queue).stop_code
        IN /\ next_arrivals'[code] = next_arrivals[code]
           /\ stop_frames'[code].rows = stop_frames[code].rows]_vars

\* Stop number j of self.stops has been fetched (or its fetch attempted) by the
\* cycle in slot t.
Attempted(t, j) ==
  \/ threads[t].pc \in {"stamp", "done"}
  \/ threads[t].pc \in {"loop", "dead"} /\ j < threads[t].i
  \/ threads[t].pc = "dead" /\ j = threads[t].i

\* C2: a cycle that has ended has fetched every stop: the failure of one stop
\* did not keep the others from being fetched.
C2_FailureSparesOtherStops ==
  \A t \in Slots :
    threads[t].pc \in {"done", "dead"} => \A j \in DOMAIN stops : Attempted(t, j)

\* C3: at most one refresh cycle is in progress.
C3_OneCycleAtATime == Cardinality({t \in Slots : Alive(t)}) <= 1

\* C4: the cache, the stop frames and the labels change only in steps of the
\* UI thread: no step in which a background thread advances changes them.
C4_OnlyUIThreadApplies ==
  [][(<< next_arrivals, stop_frames, office_arrival_label, last_updated_label >>'
        # << next_arrivals, stop_frames, office_arrival_label, last_updated_label >>)
     => threads' = threads]_vars

\* A result has been applied while a background thread is still fetching.
C4_Witness ==
  /\ CacheCreated
  /\ \E c \in CacheKeys : next_arrivals[c] # None
  /\ \E t \in Slots : threads[t].pc = "loop" /\ threads[t].i > 1

Computed ==
  /\ office_arrival_label.text # << "--:-- --" >>
  /\ ~office_arrival_label.raised

\* C6: an estimate computed while one of the three stops has no next arrival is
\* Calculating (blue), and shows no arrival time, whatever the other two hold.
C6_MissingStopGivesCalculating ==
  (CacheCreated /\ Computed /\ \E c \in CacheKeys : next_arrivals[c] = None)
    => /\ Calculating
       /\ office_arrival_label.fg = "#2196F3"
       /\ ~Ready

\* Two stops hold a value, the third none, and an estimate has been computed.
C6_Witness ==
  /\ CacheCreated
  /\ Computed
  /\ next_arrivals["17874"] # None
  /\ next_arrivals["16524"] # None
  /\ next_arrivals["70012"] = None

\* C7: with all three values present the label shows the time of day
\* now + 13 + min(union + 15, stockton + 10) + (caltrain + 49) + 7 minutes; and
\* for union 5, stockton 8, caltrain 20 the minutes added are 107.
C7_EtaFormula ==
  /\ (CacheCreated /\ Computed /\ \A c \in CacheKeys : next_arrivals[c] # None)
       => LET union == next_arrivals["17874"][1]
              stockton == next_arrivals["16524"][1]
              caltrain == next_arrivals["70012"][1]
              eta == office_arrival_label.now
                       + 13 + Min(union + 15, stockton + 10) + (caltrain + 49) + 7
          IN /\ Ready
             /\ office_arrival_label.text =
                  << IF (eta \div 60) % 12 = 0 THEN 12 ELSE (eta \div 60) % 12,
                     eta % 60,
                     IF (eta \div 60) % 24 < 12 THEN "AM" ELSE "PM" >>
  /\ TotalCommute(5, 8, 20) = 107

\* All three values are present, the Union Square leg is the faster one
\* (4 + 15 < 10 + 10), and the estimate runs past midnight.
C7_Witness ==
  /\ CacheCreated
  /\ Computed
  /\ next_arrivals["17874"] = Some(4)
  /\ next_arrivals["16524"] = Some(10)
  /\ next_arrivals["70012"] = Some(30)
  /\ office_arrival_label.now = 1400
  /\ office_arrival_label.text = << 1, 18, "AM" >>

FailedAt(j) ==
  \/ \E t \in Slots : threads[t].pc = "dead" /\ threads[t].i = j
  \/ \E k \in DOMAIN after_queue :
       /\ after_queue[k].callback = "update_stop_display"
       /\ after_queue[k].stop_code = stops[j].code
       /\ after_queue[k].failed

\* Some thread is about to fetch stop number j.
Fetching(j) == \E u \in Slots : threads[u].pc = "loop" /\ threads[u].i = j

\* C9: once a cycle has failed on a stop, whatever the kind of failure, some
\* thread later comes to fetch that stop again.
C9_FailedStopFetchedAgain ==
  \A j \in DOMAIN stops : [](FailedAt(j) => <>Fetching(j))

\* C10: every arrival shown for a stop has a destination that is not blocked,
\* and, for a stop whose routes are checked, a route among the stop's routes.
C10_ShownArrivalsPassStopFilter ==
  \A j \in DOMAIN stops :
    \A k \in DOMAIN stop_frames[stops[j].code].rows :
      LET arrival == stop_frames[stops[j].code].rows[k]
      IN /\ arrival.destination \notin destination_blacklist
         /\ AgencyOf(stops[j]) = "SF" => arrival.route \in stops[j].routes

\* ------------------------------------------- claims on the followed fetch

\* The result of the followed fetch has been applied by update_stop_display.
Applied ==
  /\ feed.pc \in {"scheduled", "filtered"}
  /\ \A k \in DOMAIN after_queue : after_queue[k].callback # "update_stop_display"

MinutesOf(arrivals) == [k \in DOMAIN arrivals |-> arrivals[k].minutes]

\* What fetch_and_update handed to update_stop_display for the followed stop,
\* and the rows the stop then shows.
Handed == RouteFilter(stops[feed.stop], feed.arrivals)
Rows == stop_frames[stops[feed.stop].code].rows

\* C11: the arrivals shown are exactly those handed over whose minutes lie in
\* the stop's inclusive window ([25, 60] for 70012, [4, unbounded) otherwise),
\* in their order (the first six of them); [2, 4, 10] gives [4, 10] and, for
\* 70012, [10, 30, 61] gives [30].
C11_WindowKeepsExactly ==
  Applied =>
    LET caltrain == stops[feed.stop].code = "70012"
        InWindow(a) == IF caltrain THEN 25 <= a.minutes /\ a.minutes <= 60
                       ELSE 4 <= a.minutes
        kept == SelectSeq(Handed, InWindow)
    IN /\ Rows = SubSeq(kept, 1, IF Len(kept) < 6 THEN Len(kept) ELSE 6)
       /\ (~caltrain /\ MinutesOf(Handed) = << 2, 4, 10 >>)
            => MinutesOf(Rows) = << 4, 10 >>
       /\ (caltrain /\ MinutesOf(Handed) = << 10, 30, 61 >>)
            => MinutesOf(Rows) = << 30 >>

\* The Caltrain example, and a feed with arrivals at both ends of the window.
C11_Witness ==
  /\ Applied
  /\ stops[feed.stop].code = "70012"
  /\ \/ MinutesOf(Handed) = << 10, 30, 61 >> /\ MinutesOf(Rows) = << 30 >>
     \/ MinutesOf(Handed) = << 24, 25, 60 >> /\ MinutesOf(Rows) = << 25, 60 >>

\* C12: the stop's filters (route, destination, window) applied to their own
\* output return it unchanged.
C12_FilterIdempotent == feed.pc = "filtered" => feed.twice = feed.once

\* The filters kept some arrivals of the feed and dropped others.
C12_Witness ==
  /\ feed.pc = "filtered"
  /\ feed.once # << >>
  /\ Len(feed.once) < Len(feed.arrivals)
  /\ feed.twice = feed.once

\* C13: once the stop's result is applied, the cached value is the minutes of
\* the first arrival shown, which is the least minutes among all the parsed
\* arrivals that pass the stop's filters, and it is absent exactly when none
\* passes.
C13_NextArrivalIsMinimum ==
  Applied =>
    LET stop == stops[feed.stop]
        Passes(a) ==
          /\ AgencyOf(stop) = "SF" =>
               a.route \in stop.routes /\ a.destination \notin destination_blacklist
          /\ IF stop.code = "70012" THEN 25 <= a.minutes /\ a.minutes <= 60
             ELSE 4 <= a.minutes
        passing == { k \in DOMAIN feed.arrivals : Passes(feed.arrivals[k]) }
        value == next_arrivals[stop.code]
    IN /\ (value = None) = (passing = {})
       /\ passing # {} =>
            /\ value = << Rows[1].minutes >>
            /\ \E k \in passing : value = << feed.arrivals[k].minutes >>
            /\ \A k \in passing : value[1] <= feed.arrivals[k].minutes

\* Seven arrivals pass, six are shown, and the cached value is the least.
C13_Witness ==
  /\ Applied
  /\ stops[feed.stop].code = "17874"
  /\ Len(Handed) = 7
  /\ Len(Rows) = 6
  /\ next_arrivals["17874"] = << 4 >>

\* fetch_stop_data has returned for the followed response.
Returned == feed.pc \in {"scheduled", "filtered"}

\* The visits of the followed response, when it is a JSON object carrying some.
FeedVisitsOf ==
  IF feed.response.outcome = "json" /\ feed.response.is_object
       /\ "ServiceDelivery" \in DOMAIN feed.response.data
  THEN feed.response.data.ServiceDelivery.StopMonitoringDelivery.MonitoredStopVisit
  ELSE << >>

\* The timestamp the feed gives for a visit: the expected time unless it is
\* missing or empty, then the aimed time; << >> when there is none.
TimestampOf(visit) ==
  LET call == visit.MonitoredVehicleJourney.MonitoredCall
  IN IF "ExpectedArrivalTime" \in DOMAIN call /\ call.ExpectedArrivalTime # << "" >>
     THEN call.ExpectedArrivalTime
     ELSE IF "AimedArrivalTime" \in DOMAIN call THEN call.AimedArrivalTime
     ELSE << >>

\* The visit has a timestamp, and it parses.
Timed(visit) == Len(TimestampOf(visit)) = 2

\* The published name of the visit's line, or its line reference.
RouteOf(visit) ==
  IF "PublishedLineName" \in DOMAIN visit.MonitoredVehicleJourney
  THEN visit.MonitoredVehicleJourney.PublishedLineName
  ELSE visit.MonitoredVehicleJourney.LineRef

\* C14: every record the parser returns has minutes >= 0, also for arrivals in
\* the past, and so has every cached next-arrival value.
C14_MinutesNonNegative ==
  /\ Returned => \A k \in DOMAIN feed.arrivals : feed.arrivals[k].minutes >= 0
  /\ \A c \in DOMAIN next_arrivals :
       next_arrivals[c] # None => next_arrivals[c][1] >= 0

\* The feed holds an arrival 90 seconds in the past and the parser has returned
\* a record for it.
C14_Witness ==
  /\ Returned
  /\ Len(FeedVisitsOf) = 1
  /\ TimestampOf(FeedVisitsOf[1]) = << "iso", -90 >>
  /\ MinutesOf(feed.arrivals) = << 0 >>

\* C15: the parser's result is in ascending order of minutes, and the records
\* of equal minutes are in the order of the feed.
C15_ParserSortsStably ==
  Returned =>
    LET out == feed.arrivals
        in_feed_order == ParseVisits(FeedVisitsOf)
        minutes == { out[k].minutes : k \in DOMAIN out }
                     \cup { in_feed_order[k].minutes : k \in DOMAIN in_feed_order }
    IN /\ \A i \in DOMAIN out : \A j \in DOMAIN out :
            i < j => out[i].minutes <= out[j].minutes
       /\ \A m \in minutes :
            LET At(a) == a.minutes = m
            IN SelectSeq(out, At) = SelectSeq(in_feed_order, At)

\* The feed gives a later arrival first and then two different arrivals of
\* equal minutes; the result has these two first, in the order of the feed.
C15_Witness ==
  /\ Returned
  /\ Len(FeedVisitsOf) = 3
  /\ MinutesOf(ParseVisits(FeedVisitsOf)) = << 10, 4, 4 >>
  /\ RouteOf(FeedVisitsOf[2]) = "OWL"
  /\ RouteOf(FeedVisitsOf[3]) # "OWL"
  /\ MinutesOf(feed.arrivals) = << 4, 4, 10 >>
  /\ feed.arrivals[1].route = "OWL"
  /\ feed.arrivals[2].route # "OWL"

\* C16: for a payload that is not JSON (also: not text at all), or is JSON but
\* not an object, fetch_stop_data returns the empty sequence and raises nothing
\* that ends the cycle.
C16_InvalidPayloadGivesEmpty ==
  (/\ feed.pc \notin {"off", "response"}
   /\ \/ feed.response.outcome \in {"badjson", "badutf8"}
      \/ feed.response.outcome = "json" /\ ~feed.response.is_object)
    => /\ feed.pc # "raised"
       /\ threads[1].pc # "dead"
       /\ feed.arrivals = << >>

\* C17: a visit without a timestamp, or with one that does not parse, gives no
\* record, and every other visit of the feed, before or after it, gives its
\* record.
C17_BadVisitSkippedAlone ==
  Returned =>
    LET visits == FeedVisitsOf
        out == feed.arrivals
    IN /\ Len(out) = Cardinality({ k \in DOMAIN visits : Timed(visits[k]) })
       /\ \A k \in DOMAIN visits :
            Timed(visits[k]) =>
              \E r \in DOMAIN out :
                /\ out[r].route = RouteOf(visits[k])
                /\ out[r].destination = visits[k].MonitoredVehicleJourney.DestinationName

\* A visit without timestamp first, one with an unparsable timestamp third,
\* and the visits second from the feed giving the one record.
C17_Witness ==
  /\ Returned
  /\ Len(FeedVisitsOf) = 3
  /\ TimestampOf(FeedVisitsOf[1]) = << >>
  /\ Timed(FeedVisitsOf[2])
  /\ TimestampOf(FeedVisitsOf[3]) = << "bad" >>
  /\ Len(feed.arrivals) = 1
  /\ feed.arrivals[1].route = RouteOf(FeedVisitsOf[2])

\* C20: for an arrival d seconds from now the record's minutes are
\* max(0, floor(d / 60)), for d positive, zero or negative.
C20_MinutesAreClampedFloor ==
  Returned =>
    LET visits == FeedVisitsOf
        out == feed.arrivals
        ClampedFloor(d) == IF d \div 60 < 0 THEN 0 ELSE d \div 60
        timed == { k \in DOMAIN visits : Timed(visits[k]) }
    IN /\ \A k \in timed :
            \E r \in DOMAIN out :
              /\ out[r].route = RouteOf(visits[k])
              /\ out[r].destination = visits[k].MonitoredVehicleJourney.DestinationName
              /\ out[r].minutes = ClampedFloor(TimestampOf(visits[k])[2])
       /\ \A r \in DOMAIN out :
            \E k \in timed : out[r].minutes = ClampedFloor(TimestampOf(visits[k])[2])

\* Arrivals 90 seconds ago (truncation gives -1, the floor -2), 30 seconds ago
\* (0 and -1) and in 150 seconds (2 and 2), parsed to 0, 0 and 2 minutes.
C20_Witness ==
  /\ Returned
  /\ Len(FeedVisitsOf) = 3
  /\ \A k \in 1 .. 3 : Timed(FeedVisitsOf[k])
  /\ TimestampOf(FeedVisitsOf[1])[2] = -90
  /\ TimestampOf(FeedVisitsOf[2])[2] = 150
  /\ TimestampOf(FeedVisitsOf[3])[2] = -30
  /\ MinutesOf(feed.arrivals) = << 0, 0, 2 >>

\* C18: when a stop's refresh ends with no arrival in its window the stop shows
\* the no-data notice; and when the fetch of a stop fails so that its thread
\* ends, the stop does not go on showing arrivals.
C18_NoDataAfterEmptyOrFailedRefresh ==
  [][/\ (/\ AppliesHead
         /\ LET caltrain == Head(after_queue).stop_code = "70012"
            IN \A k \in DOMAIN Head(after_queue).arrivals :
                 LET m == Head(after_queue).arrivals[k].minutes
                 IN IF caltrain THEN m < 25 \/ m > 60 ELSE m < 4)
          => /\ stop_frames'[Head(after_queue).stop_code].no_data
             /\ stop_frames'[Head(after_queue).stop_code].rows = << >>
     /\ \A t \in Slots :
          (threads[t].pc = "loop" /\ threads'[t].pc = "dead")
            => stop_frames'[stops[threads[t].i].code].rows = << >>]_vars

\* C19: while every fetch of the cycle so far has failed, the last-updated
\* label keeps the text it had before the cycle (here: that of construction).
C19_StampOnlyAfterSuccess ==
  (feed.pc # "off" /\ feed.all_failed) => last_updated_label = << "Updating..." >>

\* ------------------------------------------------ claims on two cycles

\* Thread t hands the result for stop number j to the main loop in this step.
Hands(t, j) ==
  /\ threads[t].pc = "loop"
  /\ threads[t].i = j
  /\ threads'[t] # threads[t]
  /\ threads'[t].pc # "dead"

\* Thread t has handed over its result for stop number j.
HasHanded(t, j) ==
  \/ threads[t].pc \in {"stamp", "done"}
  \/ threads[t].pc \in {"loop", "dead"} /\ threads[t].i > j

\* C21: the result of the earlier cycle for a stop is not handed to the main
\* loop, which applies the results in the order they are handed over, after the
\* result of the later cycle for that stop.
C21_EarlierCycleAppliedFirst ==
  [][\A j \in DOMAIN stops : Hands(1, j) => ~HasHanded(2, j)]_vars

\* C22: update_stop_display runs, and the display changes, only once the cache
\* exists; and the cache is created with all three stops absent, after the
\* first refresh has been started.
C22_NoApplicationBeforeCache ==
  [][/\ (\/ AppliesHead
         \/ stop_frames' # stop_frames
         \/ office_arrival_label' # office_arrival_label)
          => CacheCreated
     /\ (~CacheCreated /\ next_arrivals' # next_arrivals)
          => /\ next_arrivals' = [c \in CacheKeys |-> None]
             /\ \E t \in Slots : threads[t].pc # "idle"]_vars

\* The first result of the first cycle has been applied, to the cache created
\* after the cycle was started.
C22_Witness ==
  /\ CacheCreated
  /\ threads[1] = [pc |-> "loop", i |-> 2]
  /\ \A t \in Slots : t > 1 => threads[t].pc = "idle"
  /\ after_queue = << >>
  /\ stop_frames["17874"] # [no_data |-> FALSE, rows |-> << >>]
  /\ last_updated_label = << "Updating..." >>

====
